---------------------------- MODULE Spec2Model ----------------------------
(***************************************************************************)
(* Ghala webhook service: request authentication (timestamp freshness and  *)
(* HMAC signature), payload decoding, the WebhookEvents publish/subscribe  *)
(* bus and the plugin loader that fills it at start-up.                    *)
(*                                                                         *)
(* Text is a sequence of one-character strings.  The alphabet of the model *)
(* is: the decimal digits, ".", "x" (an ASCII letter that is neither a     *)
(* digit nor JSON), the JSON tokens "{", "}", "c", "u", "d", the NUL       *)
(* character "NUL", the Latin-1 character "E9" (outside ASCII; its UTF-8   *)
(* encoding is the two bytes "C3" "A9") and the byte "FF", which never     *)
(* occurs in well-formed UTF-8.                                            *)
(***************************************************************************)
EXTENDS Integers, Sequences, FiniteSets, TLC

VARIABLES
    package,    \* the plugin package load_plugins is pointed at
    loadPc,     \* position of load_plugins: "start", "iter", "done"
    loadIdx,    \* index of the next module pkgutil.iter_modules yields
    handlers,   \* WebhookEvents._handlers: event name -> list of handlers
    now,        \* the clock time.time() reads, in seconds
    tasks       \* one record per request / dispatch call being served
                \* (its field entry keeps the table as it was when the
                \* task's dispatch was entered, for the properties)

vars == <<package, loadPc, loadIdx, handlers, now, tasks>>

-----------------------------------------------------------------------------
(* Bounds of the model *)

MaxTasks == 2       \* concurrent tasks in SpecBus
MaxTicks == 1       \* clock ticks after start-up
MaxLate == 2        \* registrations made after start-up, by running handlers

(* Program constants *)

DefaultMaxAge == 300    \* verify_timestamp(max_age_seconds=300)
BlockSize == 64         \* block size of SHA-256, to which HMAC pads its key

-----------------------------------------------------------------------------
(* Text helpers *)

Digits == {"0", "1", "2", "3", "4", "5", "6", "7", "8", "9"}

DigitVal(c) ==
    CASE c = "0" -> 0 [] c = "1" -> 1 [] c = "2" -> 2 [] c = "3" -> 3
      [] c = "4" -> 4 [] c = "5" -> 5 [] c = "6" -> 6 [] c = "7" -> 7
      [] c = "8" -> 8 [] c = "9" -> 9

RECURSIVE Pow10(_)
Pow10(n) == IF n = 0 THEN 1 ELSE 10 * Pow10(n - 1)

RECURSIVE ToNat(_)
ToNat(s) ==
    IF s = <<>> THEN 0
    ELSE 10 * ToNat(SubSeq(s, 1, Len(s) - 1)) + DigitVal(s[Len(s)])

Abs(x) == IF x < 0 THEN -x ELSE x

Range(s) == {s[i] : i \in 1..Len(s)}

\* Python truthiness of an optional header value: None and "" are falsy.
None == [present |-> FALSE, lit |-> <<>>, key |-> <<>>, msg |-> <<>>]

\* A text value given literally.
Lit(s) == [present |-> TRUE, lit |-> s, key |-> <<>>, msg |-> <<>>]

Truthy(v) == v.present /\ v.lit # <<>>

\* a or b
Or(a, b) == IF Truthy(a) THEN a ELSE b

-----------------------------------------------------------------------------
(* float(timestamp) on the alphabet of the model: digits with at most one  *)
(* ".", at least one digit ("1000", "1000.", ".5", "1300.5"); anything     *)
(* else raises ValueError.  The value is num / 10^scale.                   *)

ParseFloat(s) ==
    LET dots == {i \in 1..Len(s) : s[i] = "."}
        wellFormed == /\ \A i \in 1..Len(s) : s[i] \in Digits \cup {"."}
                      /\ Cardinality(dots) <= 1
                      /\ \E i \in 1..Len(s) : s[i] \in Digits
        dot == IF dots = {} THEN Len(s) + 1 ELSE CHOOSE i \in dots : TRUE
        int == SubSeq(s, 1, dot - 1)
        frac == SubSeq(s, dot + 1, Len(s))
    IN  IF wellFormed
        THEN [ok |-> TRUE, num |-> ToNat(int \o frac), scale |-> Len(frac)]
        ELSE [ok |-> FALSE, num |-> 0, scale |-> 0]

\* A call that returned normally, and the exceptions the code can raise.
Ok == [status |-> 0, detail |-> "ok"]
HTTPException(status_code, detail) == [status |-> status_code, detail |-> detail]
\* An exception that is not an HTTPException reaches the server as a 500.
Uncaught(exc) == [status |-> 500, detail |-> exc]

\* A freshness test that also rejects a timestamp exactly max_age_seconds away.
TooOld_Inclusive(ts, max_age_seconds, clock) ==
    Abs(clock * Pow10(ts.scale) - ts.num) >= max_age_seconds * Pow10(ts.scale)

\* abs(now - ts) > max_age_seconds, on num / 10^scale
TooOld(ts, max_age_seconds, clock) ==
    Abs(clock * Pow10(ts.scale) - ts.num) > max_age_seconds * Pow10(ts.scale)

verify_timestamp(timestamp, max_age_seconds, clock) ==
    LET ts == ParseFloat(timestamp.lit)
    IN  IF ~ts.ok THEN HTTPException(400, "Invalid timestamp")
        ELSE IF TooOld(ts, max_age_seconds, clock)
             THEN HTTPException(400, "Stale timestamp")
             ELSE Ok

-----------------------------------------------------------------------------
(* UTF-8 *)

\* str.encode("utf-8"): ASCII characters are one byte, "E9" is two.
RECURSIVE Utf8Encode(_)
Utf8Encode(s) ==
    IF s = <<>> THEN <<>>
    ELSE (IF Head(s) = "E9" THEN <<"C3", "A9">> ELSE <<Head(s)>>)
         \o Utf8Encode(Tail(s))

\* bytes.decode("utf-8") succeeds on well-formed UTF-8 only.
RECURSIVE Utf8Valid(_)
Utf8Valid(b) ==
    IF b = <<>> THEN TRUE
    ELSE IF Head(b) = "C3"
         THEN Len(b) >= 2 /\ b[2] = "A9" /\ Utf8Valid(Tail(Tail(b)))
         ELSE Head(b) \notin {"FF", "A9", "E9"} /\ Utf8Valid(Tail(b))

RECURSIVE Utf8Decode(_)
Utf8Decode(b) ==
    IF b = <<>> THEN <<>>
    ELSE IF Head(b) = "C3"
         THEN <<"E9">> \o Utf8Decode(Tail(Tail(b)))
         ELSE <<Head(b)>> \o Utf8Decode(Tail(b))

-----------------------------------------------------------------------------
(* HMAC-SHA256 and base64.  SHA-256 is modelled as collision-free: a       *)
(* digest is the pair of the key block and the message it was computed     *)
(* from.  HMAC pads a key shorter than the block size with NUL bytes up to *)
(* the block size (the secrets of the model are shorter than a block).     *)

PadKey(key) == key \o [i \in 1..(BlockSize - Len(key)) |-> "NUL"]

hmac_digest(key, msg) == [key |-> PadKey(key), msg |-> msg]

\* base64.b64encode(digest).decode(): ASCII text, one per digest
b64encode(digest) ==
    [present |-> TRUE, lit |-> <<"=">>, key |-> digest.key, msg |-> digest.msg]

IsAscii(v) == "E9" \notin Range(v.lit)

\* The signature the sender computes over the raw bytes.
Sign(secret, timestamp, body) ==
    b64encode(hmac_digest(Utf8Encode(secret),
                          Utf8Encode(timestamp) \o <<".">> \o body))

\* A comparison that looks at the key of the digest only.
CompareMismatch_KeyOnly(signature, expected_signature) ==
    signature.key # expected_signature.key

CompareMismatch(signature, expected_signature) ==
    signature # expected_signature

verify_signature(secret, timestamp, body, signature) ==
    IF ~Utf8Valid(body) THEN Uncaught("UnicodeDecodeError")
    ELSE
      LET signed_content == timestamp.lit \o <<".">> \o Utf8Decode(body)
          secret_bytes == Utf8Encode(secret)
          computed_hmac == hmac_digest(secret_bytes, Utf8Encode(signed_content))
          expected_signature == b64encode(computed_hmac)
      IN  \* hmac.compare_digest raises TypeError on non-ASCII str
          IF ~IsAscii(signature) THEN Uncaught("TypeError")
          ELSE IF CompareMismatch(signature, expected_signature)
               THEN HTTPException(400, "Invalid signature")
               ELSE Ok

-----------------------------------------------------------------------------
(* Payload decoding *)

EventOfToken(c) == IF c = "c" THEN "order.created" ELSE "order.updated"

\* json.loads on the alphabet of the model: the number 5, or an object
\* "{" [event] [data] "}" whose event is "c" or "u" and whose data is "d".
JsonLoads(s) ==
    LET inner == SubSeq(s, 2, Len(s) - 1)
        bad == [ok |-> FALSE, obj |-> FALSE, event |-> "-", data |-> FALSE]
    IN  IF s = <<"5">>
        THEN [ok |-> TRUE, obj |-> FALSE, event |-> "-", data |-> FALSE]
        ELSE IF Len(s) >= 2 /\ s[1] = "{" /\ s[Len(s)] = "}"
        THEN IF inner = <<>>
             THEN [ok |-> TRUE, obj |-> TRUE, event |-> "-", data |-> FALSE]
             ELSE IF inner = <<"d">>
             THEN [ok |-> TRUE, obj |-> TRUE, event |-> "-", data |-> TRUE]
             ELSE IF Len(inner) = 1 /\ inner[1] \in {"c", "u"}
             THEN [ok |-> TRUE, obj |-> TRUE,
                   event |-> EventOfToken(inner[1]), data |-> FALSE]
             ELSE IF Len(inner) = 2 /\ inner[1] \in {"c", "u"} /\ inner[2] = "d"
             THEN [ok |-> TRUE, obj |-> TRUE,
                   event |-> EventOfToken(inner[1]), data |-> TRUE]
             ELSE bad
        ELSE bad

NoPayload == [kind |-> "none", event |-> "-", text |-> <<>>]

\* model.parse_raw(body): an envelope with the required fields event and data,
\* or a validation error.
parse_raw(body) ==
    LET j == IF Utf8Valid(body) THEN JsonLoads(Utf8Decode(body))
             ELSE [ok |-> FALSE, obj |-> FALSE, event |-> "-", data |-> FALSE]
    IN  IF j.ok /\ j.obj /\ j.event # "-" /\ j.data
        THEN [ok |-> TRUE,
              value |-> [kind |-> "envelope", event |-> j.event, text |-> <<>>]]
        ELSE [ok |-> FALSE, value |-> NoPayload]

\* getattr(payload, "data", payload)
DataOf(payload) ==
    IF payload.kind = "envelope"
    THEN [kind |-> "data", event |-> "-", text |-> <<>>]
    ELSE payload

\* Lines 55-68 of handle_webhook: the decoded payload, or the error raised.
DecodePayload(model, body) ==
    IF ~Utf8Valid(body)
    THEN [result |-> HTTPException(400, "Invalid JSON"), payload |-> NoPayload]
    ELSE IF model
         THEN IF parse_raw(body).ok
              THEN [result |-> Ok, payload |-> DataOf(parse_raw(body).value)]
              ELSE [result |-> HTTPException(422, "Invalid payload"),
                    payload |-> NoPayload]
         ELSE [result |-> Ok,
               payload |-> DataOf([kind |-> "str", event |-> "-",
                                   text |-> Utf8Decode(body)])]

-----------------------------------------------------------------------------
(* The event bus *)

Wildcard == "*"

\* A registration written self._handlers[event_name] = [func].
on_Overwrite(h, event_name, func) ==
    [name \in DOMAIN h \cup {event_name} |->
        IF name = event_name THEN <<func>> ELSE h[name]]

\* self._handlers[event_name].append(func) on a defaultdict(list)
on(h, event_name, func) ==
    IF event_name \in DOMAIN h
    THEN [h EXCEPT ![event_name] = Append(@, func)]
    ELSE h @@ (event_name :> <<func>>)

\* Importing a plugin module runs its body: every @events.on(...) in order.
RECURSIVE ImportModule(_, _)
ImportModule(h, regs) ==
    IF regs = <<>> THEN h
    ELSE ImportModule(on(h, Head(regs).event_name, Head(regs).func), Tail(regs))

\* The registrations under a name: the stored list, or none.
Registered(h, name) == IF name \in DOMAIN h THEN h[name] ELSE <<>>

\* self._handlers.get(name, []): the stored list itself, or a fresh empty one
IterRef(h, name) == IF name \in DOMAIN h THEN "live" ELSE "empty"

\* A lookup written self._handlers[name]: on a defaultdict it stores an empty
\* list under a name that has none.
AfterGet_GetItem(h, name) ==
    IF name \in DOMAIN h THEN h ELSE h @@ (name :> <<>>)

\* The table after self._handlers.get(name, []): dict.get does not go through
\* __missing__, so nothing is stored.
AfterGet(h, name) == h

\* The names dispatch looks up while it takes a task from before to after:
\* the event name when it is entered, "*" when it leaves the exact-name loop.
Lookups(before, after) ==
    (IF before.phase = "-" THEN <<before.event_name>> ELSE <<>>)
    \o (IF before.phase \in {"-", "exact"} /\ after.phase \in {"wild", "end"}
        THEN <<Wildcard>> ELSE <<>>)

\* The table after the lookups of one step of dispatch.
RECURSIVE AfterLookups(_, _)
AfterLookups(h, names) ==
    IF names = <<>> THEN h
    ELSE AfterLookups(AfterGet(h, Head(names)), Tail(names))

\* The list a for loop of dispatch is iterating over.
IterList(h, name, ref) == IF ref = "live" THEN h[name] ELSE <<>>

\* await handler(payload, meta): the handler is handed the metadata dict of
\* this dispatch (the object itself, as it is at the moment of the call).
Call(task, phase, ref, idx, func) ==
    [task EXCEPT !.pc = "await", !.phase = phase, !.iterRef = ref, !.idx = idx,
                 !.current = func,
                 !.log = Append(@, [op |-> "call", handler |-> func,
                                    phase |-> phase, meta |-> task.meta])]

Finish(task) ==
    [task EXCEPT !.pc = "respond", !.phase = "end", !.iterRef = "empty",
                 !.idx = 0, !.current = "-"]

\* A wildcard loop that skips the handlers this dispatch has already invoked.
RECURSIVE WildLoop_Dedup(_, _, _, _)
WildLoop_Dedup(task, h, ref, idx) ==
    IF idx < Len(IterList(h, Wildcard, ref))
    THEN IF \E i \in 1..Len(task.log) :
                task.log[i].handler = IterList(h, Wildcard, ref)[idx + 1]
         THEN WildLoop_Dedup(task, h, ref, idx + 1)
         ELSE Call(task, "wild", ref, idx + 1, IterList(h, Wildcard, ref)[idx + 1])
    ELSE Finish(task)

\* A wildcard loop that walks its list from the end.
WildLoop_Reversed(task, h, ref, idx) ==
    IF idx < Len(IterList(h, Wildcard, ref))
    THEN Call(task, "wild", ref, idx + 1,
              IterList(h, Wildcard, ref)[Len(IterList(h, Wildcard, ref)) - idx])
    ELSE Finish(task)

\* for handler in self._handlers.get("*", []): await handler(payload, meta)
WildLoop(task, h, ref, idx) ==
    IF idx < Len(IterList(h, Wildcard, ref))
    THEN Call(task, "wild", ref, idx + 1, IterList(h, Wildcard, ref)[idx + 1])
    ELSE Finish(task)

\* An exact-name loop after which dispatch returns: no wildcard handlers.
ExactLoop_NoWildcard(task, h, ref, idx) ==
    IF idx < Len(IterList(h, task.event_name, ref))
    THEN Call(task, "exact", ref, idx + 1,
              IterList(h, task.event_name, ref)[idx + 1])
    ELSE Finish(task)

\* for handler in self._handlers.get(event_name, []): await handler(payload, meta)
ExactLoop(task, h, ref, idx) ==
    IF idx < Len(IterList(h, task.event_name, ref))
    THEN Call(task, "exact", ref, idx + 1,
              IterList(h, task.event_name, ref)[idx + 1])
    ELSE WildLoop(task, h, IterRef(h, Wildcard), 0)

\* dispatch runs on from where it stands up to its next await or its return.
Advance(task, h) ==
    IF task.phase = "exact"
    THEN ExactLoop(task, h, task.iterRef, task.idx)
    ELSE WildLoop(task, h, task.iterRef, task.idx)

\* meta = {**meta, "event": event_name}
StampMeta(meta, event_name) ==
    [k \in DOMAIN meta \cup {"event"} |->
        IF k = "event" THEN event_name ELSE meta[k]]

-----------------------------------------------------------------------------
(* Configuration and inputs *)

\* The per-category secrets of Settings (values of the environment).
CREATE_ORDER_WEBHOOK_SECRET == <<"x", "1">>
UPDATE_ORDER_WEBHOOK_SECRET == <<"x", "2">>

\* The ways handle_webhook is called: two of the five endpoints, which differ
\* in secret and event name only, and a call without a model.
order_created ==
    [secret |-> CREATE_ORDER_WEBHOOK_SECRET, event_name |-> "order.created",
     model |-> TRUE]
order_updated ==
    [secret |-> UPDATE_ORDER_WEBHOOK_SECRET, event_name |-> "order.updated",
     model |-> TRUE]
loose_call ==
    [secret |-> UPDATE_ORDER_WEBHOOK_SECRET, event_name |-> "order.updated",
     model |-> FALSE]

Endpoints == {order_created, order_updated, loose_call}

\* Plugin modules a package may hold, in the order pkgutil.iter_modules
\* yields them (sorted by name).  logger is the module of the repository.
Mod(name, active, regs) == [name |-> name, active |-> active, regs |-> regs]
Reg(event_name, func) == [event_name |-> event_name, func |-> func]

AuditRegs == <<Reg("order.created", "audit_order"), Reg(Wildcard, "audit_order")>>
LoggerRegs == <<Reg(Wildcard, "log_all_events")>>
NotifyRegs == <<Reg("order.created", "notify_order"),
                Reg("order.created", "notify_stock")>>

\* PLUGIN_ACTIVE of a module: True, False, or not set
Flags == {"True", "False", "unset"}

NoPackage == [kind |-> "missing", modules |-> <<>>]
PlainModule == [kind |-> "module", modules |-> <<>>]
Pkg(mods) == [kind |-> "package", modules |-> mods]

\* Packages of the request specification: the repository's own, with every
\* value of the logger's flag, and one with a second plugin.
Packages ==
    {NoPackage, PlainModule}
    \cup {Pkg(<<Mod("logger", f, LoggerRegs)>>) : f \in Flags}
    \cup {Pkg(<<Mod("audit", "True", AuditRegs), Mod("logger", "False", LoggerRegs),
                 Mod("notify", "True", NotifyRegs)>>)}

\* Packages of the bus specification: every choice among three plugins.
OptMod(name, flags, regs) == {<<>>} \cup {<<Mod(name, f, regs)>> : f \in flags}
BusPackages ==
    {NoPackage}
    \cup {Pkg(a \o l \o n) : a \in OptMod("audit", {"True"}, AuditRegs),
                             l \in OptMod("logger", {"False", "unset"}, LoggerRegs),
                             n \in OptMod("notify", {"True"}, NotifyRegs)}

\* Timestamp header values.
T699 == <<"6", "9", "9">>
T700 == <<"7", "0", "0">>
T1000 == <<"1", "0", "0", "0">>
T1000dot == <<"1", "0", "0", "0", ".">>
T1300 == <<"1", "3", "0", "0">>
T1300h == <<"1", "3", "0", "0", ".", "5">>
T1301 == <<"1", "3", "0", "1">>

\* reading of the clock at start-up
StartTime == ToNat(T1000)

\* (X-Ghala-Timestamp, Webhook-Timestamp) of a request
TimestampHeaders ==
    {<<Lit(t), None>> :
        t \in {<<>>, <<"x">>, T699, T700, T1000, T1000dot, T1300, T1300h, T1301}}
    \cup {<<None, None>>, <<None, Lit(T1000)>>, <<Lit(<<>>), Lit(T1000)>>,
          <<None, Lit(<<"x">>)>>}

\* Request bodies: a valid envelope, an envelope without data, a JSON number,
\* malformed JSON, and bytes that are not UTF-8.
Bodies == {<<"{", "c", "d", "}">>, <<"{", "c", "}">>, <<"5">>, <<".", "5">>,
           <<"FF">>}

\* What a sender may have signed, and with which secret.
SignerSecrets == {CREATE_ORDER_WEBHOOK_SECRET, UPDATE_ORDER_WEBHOOK_SECRET,
                  CREATE_ORDER_WEBHOOK_SECRET \o <<"NUL">>}
SignerTimestamps == {T1000, T1000dot, T1301}

\* Who computed a signature header: nobody (a literal value), or a sender
\* that signed timestamp and body with secret.
NoSigner == [used |-> FALSE, secret |-> <<>>, timestamp |-> <<>>, body |-> <<>>]
Signer(secret, timestamp, body) ==
    [used |-> TRUE, secret |-> secret, timestamp |-> timestamp, body |-> body]

\* X-Ghala-Signature of a request, with its origin
SignatureHeaders ==
    {[value |-> v, signer |-> NoSigner] :
        v \in {None, Lit(<<>>), Lit(<<"x">>), Lit(<<"E9">>)}}
    \cup {[value |-> Sign(s, t, b), signer |-> Signer(s, t, b)] :
            s \in SignerSecrets, t \in SignerTimestamps, b \in Bodies}

-----------------------------------------------------------------------------
(* State *)

Tasks == 1..MaxTasks

NoMeta == [k \in {} |-> ""]

IdleTask ==
    [pc |-> "idle", kind |-> "none",
     secret |-> <<>>, event_name |-> "-", model |-> FALSE,
     xts |-> None, wts |-> None, sig |-> None, signer |-> NoSigner,
     body |-> <<>>,
     timestamp |-> None, signature |-> None,
     clock |-> 0, payload |-> NoPayload,
     callerMeta |-> NoMeta, meta |-> NoMeta, entry |-> [k \in {} |-> <<>>],
     phase |-> "-", iterRef |-> "empty", idx |-> 0, current |-> "-",
     checks |-> <<>>, log |-> <<>>, result |-> Ok]

InitCommon ==
    /\ loadPc = "start"
    /\ loadIdx = 0
    /\ handlers = [k \in {} |-> <<>>]
    /\ now = StartTime
    /\ tasks = [t \in Tasks |-> IdleTask]

Init == package \in Packages /\ InitCommon

InitBus == package \in BusPackages /\ InitCommon

-----------------------------------------------------------------------------
(* load_plugins *)

\* importlib.import_module(package_path) and the __path__ test
LoadStart ==
    /\ loadPc = "start"
    /\ IF package.kind = "package"
       THEN loadPc' = "iter" /\ loadIdx' = 1
       ELSE loadPc' = "done" /\ loadIdx' = 0
    /\ UNCHANGED <<package, handlers, now, tasks>>

\* What one iteration of the loop does to the table: the import runs the
\* module's registrations, and an inactive module is then skipped (continue).
LoadOne(h, mod) ==
    LET imported == ImportModule(h, mod.regs)
        active == IF mod.active = "unset" THEN "True" ELSE mod.active
    IN  IF active = "False" THEN imported ELSE imported

LoadModule ==
    /\ loadPc = "iter"
    /\ loadIdx <= Len(package.modules)
    /\ handlers' = LoadOne(handlers, package.modules[loadIdx])
    /\ loadIdx' = loadIdx + 1
    /\ UNCHANGED <<package, loadPc, now, tasks>>

LoadDone ==
    /\ loadPc = "iter"
    /\ loadIdx > Len(package.modules)
    /\ loadPc' = "done"
    /\ UNCHANGED <<package, loadIdx, handlers, now, tasks>>

\* time passes
Tick ==
    /\ now < StartTime + MaxTicks
    /\ now' = now + 1
    /\ UNCHANGED <<package, loadPc, loadIdx, handlers, tasks>>

-----------------------------------------------------------------------------
(* handle_webhook *)

Free(t) == tasks[t].pc = "idle"

Raise(task, exc) == [task EXCEPT !.pc = "done", !.result = exc]

\* The task that serves a request to endpoint ep, as handle_webhook is entered.
NewRequest(ep, ts, sig, body) ==
    [IdleTask EXCEPT !.pc = "extract", !.kind = "webhook",
                     !.secret = ep.secret, !.event_name = ep.event_name,
                     !.model = ep.model,
                     !.xts = ts[1], !.wts = ts[2], !.sig = sig.value,
                     !.signer = sig.signer, !.body = body]

\* A request arrives at an endpoint (the app serves only after load_plugins).
Receive(t) ==
    /\ loadPc = "done"
    /\ Free(t)
    /\ \E ep \in Endpoints, ts \in TimestampHeaders, sig \in SignatureHeaders,
          body \in Bodies :
            tasks' = [tasks EXCEPT ![t] = NewRequest(ep, ts, sig, body)]
    /\ UNCHANGED <<package, loadPc, loadIdx, handlers, now>>

extract_webhook_data(task) ==
    LET timestamp == Or(task.xts, task.wts)
        signature == task.sig
        ran == [task EXCEPT !.checks = Append(@, "headers")]
    IN  IF ~Truthy(timestamp) \/ ~Truthy(signature)
        THEN Raise(ran, HTTPException(400, "Missing required headers"))
        ELSE [ran EXCEPT !.pc = "verify_timestamp", !.timestamp = timestamp,
                         !.signature = signature]

Extract(t) ==
    /\ tasks[t].pc = "extract"
    /\ tasks' = [tasks EXCEPT ![t] = extract_webhook_data(@)]
    /\ UNCHANGED <<package, loadPc, loadIdx, handlers, now>>

\* A handler that verifies the signature before the timestamp.
CheckTimestamp_SignatureFirst(task, clock) ==
    LET s == verify_signature(task.secret, task.timestamp, task.body,
                              task.signature)
        r == verify_timestamp(task.timestamp, DefaultMaxAge, clock)
        ran == [task EXCEPT !.checks = Append(@, "timestamp"), !.clock = clock]
    IN  IF s # Ok THEN Raise(ran, s)
        ELSE IF r = Ok THEN [ran EXCEPT !.pc = "verify_signature"]
        ELSE Raise(ran, r)

CheckTimestamp(task, clock) ==
    LET r == verify_timestamp(task.timestamp, DefaultMaxAge, clock)
        ran == [task EXCEPT !.checks = Append(@, "timestamp"), !.clock = clock]
    IN  IF r = Ok THEN [ran EXCEPT !.pc = "verify_signature"] ELSE Raise(ran, r)

VerifyTimestamp(t) ==
    /\ tasks[t].pc = "verify_timestamp"
    /\ tasks' = [tasks EXCEPT ![t] = CheckTimestamp(@, now)]
    /\ UNCHANGED <<package, loadPc, loadIdx, handlers, now>>

\* A handler that goes on to decoding whatever verify_signature says.
CheckSignature_Ignored(task) ==
    [task EXCEPT !.checks = Append(@, "signature"), !.pc = "decode"]

CheckSignature(task) ==
    LET r == verify_signature(task.secret, task.timestamp, task.body,
                              task.signature)
        ran == [task EXCEPT !.checks = Append(@, "signature")]
    IN  IF r = Ok THEN [ran EXCEPT !.pc = "decode"] ELSE Raise(ran, r)

VerifySignature(t) ==
    /\ tasks[t].pc = "verify_signature"
    /\ tasks' = [tasks EXCEPT ![t] = CheckSignature(@)]
    /\ UNCHANGED <<package, loadPc, loadIdx, handlers, now>>

\* Lines 55-69: decode the payload and build the metadata.
DecodeStep(task) ==
    LET d == DecodePayload(task.model, task.body)
        ran == [task EXCEPT !.checks = Append(@, "decode")]
    IN  IF d.result = Ok
        THEN [ran EXCEPT !.pc = "dispatch", !.payload = d.payload,
                         !.callerMeta = [timestamp |-> task.timestamp.lit,
                                         event |-> task.event_name]]
        ELSE Raise(ran, d.result)

Decode(t) ==
    /\ tasks[t].pc = "decode"
    /\ tasks' = [tasks EXCEPT ![t] = DecodeStep(@)]
    /\ UNCHANGED <<package, loadPc, loadIdx, handlers, now>>

-----------------------------------------------------------------------------
(* WebhookEvents.dispatch *)

\* A dispatch that starts every exact-name handler without awaiting any.
DispatchStart_NoAwait(task, h) ==
    [task EXCEPT !.pc = "respond", !.phase = "end",
                 !.log = [i \in 1..Len(Registered(h, task.event_name)) |->
                            [op |-> "call",
                             handler |-> Registered(h, task.event_name)[i],
                             phase |-> "exact",
                             meta |-> StampMeta(task.callerMeta,
                                                task.event_name)]]]

\* A call of dispatch that is not awaited: the coroutine never runs.
DispatchStart_NotAwaited(task, h) ==
    [task EXCEPT !.pc = "respond", !.phase = "end", !.entry = h,
                 !.meta = StampMeta(task.callerMeta, task.event_name)]

\* dispatch is entered: the metadata is stamped and the first loop runs up to
\* the first handler call, or to the return when there is none.
DispatchStart(task, h) ==
    Advance([task EXCEPT !.meta = StampMeta(task.callerMeta, task.event_name),
                         !.entry = h,
                         !.phase = "exact",
                         !.iterRef = IterRef(h, task.event_name),
                         !.idx = 0], h)

Dispatch(t) ==
    /\ tasks[t].pc = "dispatch"
    /\ tasks' = [tasks EXCEPT ![t] = DispatchStart(@, handlers)]
    /\ handlers' = AfterLookups(handlers,
                                Lookups(tasks[t], DispatchStart(tasks[t], handlers)))
    /\ UNCHANGED <<package, loadPc, loadIdx, now>>

\* The awaited handler completes and dispatch goes on.
AfterReturn(task, h) ==
    Advance([task EXCEPT !.current = "-",
                         !.log = Append(@, [op |-> "return",
                                            handler |-> task.current,
                                            phase |-> task.phase,
                                            meta |-> task.meta])], h)

HandlerReturn(t) ==
    /\ tasks[t].pc = "await"
    /\ tasks' = [tasks EXCEPT ![t] = AfterReturn(@, handlers)]
    /\ handlers' = AfterLookups(handlers,
                                Lookups(tasks[t], AfterReturn(tasks[t], handlers)))
    /\ UNCHANGED <<package, loadPc, loadIdx, now>>

\* A dispatch that swallows the exception of a handler and returns.
AfterRaise_Swallowed(task) ==
    [task EXCEPT !.pc = "respond", !.phase = "end", !.current = "-",
                 !.log = Append(@, [op |-> "raise", handler |-> task.current,
                                    phase |-> task.phase,
                                    meta |-> task.meta])]

\* The awaited handler raises: the exception leaves dispatch and its caller.
AfterRaise(task) ==
    Raise([task EXCEPT !.current = "-",
                       !.log = Append(@, [op |-> "raise",
                                          handler |-> task.current,
                                          phase |-> task.phase,
                                          meta |-> task.meta])],
          Uncaught("HandlerError"))

HandlerRaise(t) ==
    /\ tasks[t].pc = "await"
    /\ tasks' = [tasks EXCEPT ![t] = AfterRaise(@)]
    /\ UNCHANGED <<package, loadPc, loadIdx, handlers, now>>

\* return WebhookResponse(message=f"{event_name} webhook received and verified")
Acknowledge(task) ==
    [task EXCEPT !.pc = "done",
                 !.result = [status |-> 200, detail |-> task.event_name]]

Respond(t) ==
    /\ tasks[t].pc = "respond"
    /\ tasks[t].kind = "webhook"
    /\ tasks' = [tasks EXCEPT ![t] = Acknowledge(@)]
    /\ UNCHANGED <<package, loadPc, loadIdx, handlers, now>>

\* The response (or the error) has been sent: the task is over.
Close(t) ==
    /\ tasks[t].pc = "done"
    /\ tasks' = [tasks EXCEPT ![t] = IdleTask]
    /\ UNCHANGED <<package, loadPc, loadIdx, handlers, now>>

-----------------------------------------------------------------------------
(* The request specification: the service loads its plugins and then       *)
(* serves requests, one after another.                                     *)

Next ==
    \/ LoadStart
    \/ LoadModule
    \/ LoadDone
    \/ Tick
    \/ Receive(1)
    \/ Extract(1)
    \/ VerifyTimestamp(1)
    \/ VerifySignature(1)
    \/ Decode(1)
    \/ Dispatch(1)
    \/ HandlerReturn(1)
    \/ HandlerRaise(1)
    \/ Respond(1)
    \/ Close(1)

Spec == Init /\ [][Next]_vars

-----------------------------------------------------------------------------
(* The bus specification: after start-up, several tasks are served at once *)
(* and interleave at the awaits of their dispatches.  A task is a request  *)
(* to an endpoint or a direct call of events.dispatch.                     *)

DispatchNames == {"order.created", "payment.failed", Wildcard}

BusRequests ==
    {NewRequest(order_created, <<Lit(T1000), None>>,
                [value |-> Sign(CREATE_ORDER_WEBHOOK_SECRET, T1000,
                                <<"{", "c", "d", "}">>),
                 signer |-> Signer(CREATE_ORDER_WEBHOOK_SECRET, T1000,
                                   <<"{", "c", "d", "}">>)],
                <<"{", "c", "d", "}">>)}

NewCall(event_name, payload, meta) ==
    [IdleTask EXCEPT !.pc = "dispatch", !.kind = "direct",
                     !.event_name = event_name, !.payload = payload,
                     !.callerMeta = meta]

ReceiveBus(t) ==
    /\ loadPc = "done"
    /\ Free(t)
    /\ \E r \in BusRequests : tasks' = [tasks EXCEPT ![t] = r]
    /\ UNCHANGED <<package, loadPc, loadIdx, handlers, now>>

\* Some code calls events.dispatch(event_name, payload, meta) itself.
CallDispatch(t) ==
    /\ loadPc = "done"
    /\ Free(t)
    /\ \E name \in DispatchNames :
          tasks' = [tasks EXCEPT ![t] =
                      NewCall(name, [kind |-> "data", event |-> "-", text |-> <<>>],
                              [timestamp |-> T1000])]
    /\ UNCHANGED <<package, loadPc, loadIdx, handlers, now>>

\* dispatch returns to its direct caller
Returned(task) == [task EXCEPT !.pc = "done"]

Return(t) ==
    /\ tasks[t].pc = "respond"
    /\ tasks[t].kind = "direct"
    /\ tasks' = [tasks EXCEPT ![t] = Returned(@)]
    /\ UNCHANGED <<package, loadPc, loadIdx, handlers, now>>

NextBus ==
    \/ LoadStart
    \/ LoadModule
    \/ LoadDone
    \/ \E t \in Tasks :
        \/ ReceiveBus(t)
        \/ CallDispatch(t)
        \/ Extract(t)
        \/ VerifyTimestamp(t)
        \/ VerifySignature(t)
        \/ Decode(t)
        \/ Dispatch(t)
        \/ HandlerReturn(t)
        \/ HandlerRaise(t)
        \/ Respond(t)
        \/ Return(t)
        \/ Close(t)

SpecBus == InitBus /\ [][NextBus]_vars

-----------------------------------------------------------------------------
(* The plugin specification: what handlers, which are plugin code, can do  *)
(* while dispatch awaits them.  A handler holds the metadata dict it was   *)
(* passed and can write to it, and it can reach the module-level bus and   *)
(* subscribe a handler with events.on.  One task is served at a time.      *)

DynPackages ==
    {Pkg(<<Mod("logger", "True", LoggerRegs)>>),
     Pkg(<<Mod("notify", "True", NotifyRegs)>>),
     Pkg(<<Mod("audit", "True", AuditRegs), Mod("notify", "True", NotifyRegs)>>)}

InitDyn == package \in DynPackages /\ InitCommon

\* A request to endpoint ep that carries the signature of its own content.
SignedRequest(ep, timestamp, body) ==
    NewRequest(ep, <<Lit(timestamp), None>>,
               [value |-> Sign(ep.secret, timestamp, body),
                signer |-> Signer(ep.secret, timestamp, body)],
               body)

\* Envelopes whose event field says order.created / order.updated.
DynBodies == {<<"{", "c", "d", "}">>, <<"{", "u", "d", "}">>}

ReceiveDyn(t) ==
    /\ loadPc = "done"
    /\ Free(t)
    /\ \E ep \in {order_created, order_updated}, body \in DynBodies :
          tasks' = [tasks EXCEPT ![t] = SignedRequest(ep, T1000, body)]
    /\ UNCHANGED <<package, loadPc, loadIdx, handlers, now>>

\* The meta argument of a direct call: without an event, with the
\* dispatched name, with another name.
CallerMetas ==
    {[timestamp |-> T1000],
     [timestamp |-> T1000, event |-> "order.created"],
     [timestamp |-> T1000, event |-> "other"]}

CallDispatchDyn(t) ==
    /\ loadPc = "done"
    /\ Free(t)
    /\ \E name \in {"order.created", "payment.failed"}, meta \in CallerMetas :
          tasks' = [tasks EXCEPT ![t] =
                      NewCall(name, [kind |-> "data", event |-> "-", text |-> <<>>],
                              meta)]
    /\ UNCHANGED <<package, loadPc, loadIdx, handlers, now>>

\* meta[key] = value, on the dict the handler was passed
SetItem(meta, key, value) ==
    [k \in DOMAIN meta \cup {key} |-> IF k = key THEN value ELSE meta[k]]

\* The running handler writes to the metadata it received: the dict is the
\* one dispatch built (events.py:39) and passes to every handler.
Mutate(t) ==
    /\ tasks[t].pc = "await"
    /\ \E key \in {"event", "seen"} :
          /\ SetItem(tasks[t].meta, key, "tampered") # tasks[t].meta
          /\ tasks' = [tasks EXCEPT ![t].meta = SetItem(@, key, "tampered")]
    /\ UNCHANGED <<package, loadPc, loadIdx, handlers, now>>

\* How many registrations of func the table holds.
RECURSIVE Occurrences(_, _)
Occurrences(seq, func) ==
    IF seq = <<>> THEN 0
    ELSE (IF Head(seq) = func THEN 1 ELSE 0) + Occurrences(Tail(seq), func)

Registrations(h, func) ==
    LET names == DOMAIN h
        RECURSIVE Sum(_)
        Sum(S) == IF S = {} THEN 0
                  ELSE LET n == CHOOSE n \in S : TRUE
                       IN  Occurrences(h[n], func) + Sum(S \ {n})
    IN  Sum(names)

\* The running handler subscribes a handler: events.on(name)(late_handler).
Subscribe(t) ==
    /\ tasks[t].pc = "await"
    /\ Registrations(handlers, "late_handler") < MaxLate
    /\ \E name \in {"order.created", Wildcard} :
          handlers' = on(handlers, name, "late_handler")
    /\ UNCHANGED <<package, loadPc, loadIdx, now, tasks>>

NextDyn ==
    \/ LoadStart
    \/ LoadModule
    \/ LoadDone
    \/ ReceiveDyn(1)
    \/ CallDispatchDyn(1)
    \/ Extract(1)
    \/ VerifyTimestamp(1)
    \/ VerifySignature(1)
    \/ Decode(1)
    \/ Dispatch(1)
    \/ Mutate(1)
    \/ Subscribe(1)
    \/ HandlerReturn(1)
    \/ HandlerRaise(1)
    \/ Respond(1)
    \/ Return(1)
    \/ Close(1)

SpecDyn == InitDyn /\ [][NextDyn]_vars

-----------------------------------------------------------------------------
(* The scheduling specification: requests served one after another by the  *)
(* event loop, which runs a coroutine that can go on: every step of        *)
(* handle_webhook and of dispatch that is ready is eventually taken, and   *)
(* an awaited handler that does not fail eventually returns.               *)

LiveTimestamps == {T699, T700, T1000}

\* Envelopes that pass and fail the schema.
LiveBodies == {<<"{", "c", "d", "}">>, <<"{", "c", "}">>}

ReceiveLive(t) ==
    /\ loadPc = "done"
    /\ Free(t)
    /\ \E ep \in {order_created, order_updated}, ts \in LiveTimestamps,
          body \in LiveBodies :
            tasks' = [tasks EXCEPT ![t] = SignedRequest(ep, ts, body)]
    /\ UNCHANGED <<package, loadPc, loadIdx, handlers, now>>

NextLive ==
    \/ LoadStart
    \/ LoadModule
    \/ LoadDone
    \/ Tick
    \/ ReceiveLive(1)
    \/ Extract(1)
    \/ VerifyTimestamp(1)
    \/ VerifySignature(1)
    \/ Decode(1)
    \/ Dispatch(1)
    \/ HandlerReturn(1)
    \/ HandlerRaise(1)
    \/ Respond(1)
    \/ Close(1)

Fairness ==
    /\ WF_vars(Extract(1))
    /\ WF_vars(VerifyTimestamp(1))
    /\ WF_vars(VerifySignature(1))
    /\ WF_vars(Decode(1))
    /\ WF_vars(Dispatch(1))
    /\ WF_vars(HandlerReturn(1))
    /\ WF_vars(Respond(1))

SpecLive == InitBus /\ [][NextLive]_vars /\ Fairness

-----------------------------------------------------------------------------
(* Properties *)

IsCall(e) == e.op = "call"
IsRaise(e) == e.op = "raise"

\* The handler invocations of a task so far, in order.
Calls(task) == SelectSeq(task.log, IsCall)

HandlersOf(entries) == [i \in 1..Len(entries) |-> entries[i].handler]

IsPrefix(a, b) == Len(a) <= Len(b) /\ SubSeq(b, 1, Len(a)) = a

\* dispatch has been entered by the task / has returned normally
Entered(task) == task.phase # "-"
Completed(task) == task.phase = "end"

\* C1: a dispatch of an event other than "*" invokes the handlers registered
\* under the exact name in registration order, then those registered under
\* "*" in registration order; at every moment the invocations made so far are
\* a prefix of that sequence, and when no handler failed they are all of it,
\* each registration once.
C1_DispatchOrder ==
    \A t \in Tasks :
        LET task == tasks[t]
            exact == Registered(handlers, task.event_name)
            wild == Registered(handlers, Wildcard)
            calls == Calls(task)
        IN  (Entered(task) /\ task.event_name # Wildcard) =>
              /\ IsPrefix(HandlersOf(calls), exact \o wild)
              /\ \A i \in 1..Len(calls) :
                    calls[i].phase = IF i <= Len(exact) THEN "exact" ELSE "wild"
              /\ Completed(task) => HandlersOf(calls) = exact \o wild

\* A dispatch of order.created with three exact-name and two wildcard
\* registrations has returned.
C1_Witness ==
    \E t \in Tasks :
        /\ Completed(tasks[t])
        /\ tasks[t].event_name = "order.created"
        /\ Len(Registered(handlers, "order.created")) = 3
        /\ Len(Registered(handlers, Wildcard)) = 2
        /\ Len(Calls(tasks[t])) = 5

-----------------------------------------------------------------------------
\* The checks of handle_webhook, in the order of its code.
CheckOrder == <<"headers", "timestamp", "signature", "decode">>

\* The timestamp a request carries: X-Ghala-Timestamp, else Webhook-Timestamp.
TimestampOf(task) == Or(task.xts, task.wts)

HeadersPresent(task) == Truthy(TimestampOf(task)) /\ Truthy(task.sig)

\* The request of the task passes every stage before dispatch, the clock
\* having read task.clock when its timestamp was checked.
Verified(task) ==
    /\ HeadersPresent(task)
    /\ verify_timestamp(TimestampOf(task), DefaultMaxAge, task.clock) = Ok
    /\ verify_signature(task.secret, TimestampOf(task), task.body, task.sig) = Ok
    /\ DecodePayload(task.model, task.body).result = Ok

\* C2: a handler is invoked for a request (or its dispatch is entered) only
\* if the request has its headers, a fresh timestamp, a matching signature
\* and a payload that decodes, and all four checks have run.
C2_NoDispatchUnlessVerified ==
    \A t \in Tasks :
        (tasks[t].kind = "webhook" /\ (tasks[t].log # <<>> \/ Entered(tasks[t])))
            => (tasks[t].checks = CheckOrder /\ Verified(tasks[t]))

\* A handler has been invoked for a request.
C2_Witness ==
    \E t \in Tasks : tasks[t].kind = "webhook" /\ Len(Calls(tasks[t])) >= 1

-----------------------------------------------------------------------------
\* C3: when a handler of a dispatch fails, the failure is the last thing
\* the dispatch did (no later handler is invoked), every handler before it was
\* called and returned, and the task ends with the exception: no success
\* acknowledgment.
C3_FailureStopsDispatch ==
    \A t \in Tasks :
        LET task == tasks[t]
            log == task.log
        IN  \A i \in 1..Len(log) :
                log[i].op = "raise" =>
                  /\ i = Len(log)
                  /\ i >= 2 /\ log[i - 1].op = "call"
                  /\ log[i - 1].handler = log[i].handler
                  /\ \A j \in 1..(i - 2) :
                        /\ log[j].op = IF j % 2 = 1 THEN "call" ELSE "return"
                        /\ j % 2 = 1 => log[j + 1].handler = log[j].handler
                  /\ task.pc = "done"
                  /\ task.result = Uncaught("HandlerError")
                  /\ task.result.status # 200

\* The second exact-name handler of a request failed, with a third
\* exact-name handler and the wildcard handlers still to come.
C3_Witness ==
    \E t \in Tasks :
        /\ tasks[t].kind = "webhook"
        /\ Len(tasks[t].log) = 4
        /\ tasks[t].log[4].op = "raise"
        /\ tasks[t].log[4].phase = "exact"
        /\ Len(Registered(handlers, tasks[t].event_name)) = 3
        /\ Len(Registered(handlers, Wildcard)) = 2

-----------------------------------------------------------------------------
\* The error of the first check, in the order of the code, that the request
\* of the task fails.
FirstFailure(task) ==
    IF ~HeadersPresent(task)
    THEN HTTPException(400, "Missing required headers")
    ELSE IF verify_timestamp(TimestampOf(task), DefaultMaxAge, task.clock) # Ok
    THEN verify_timestamp(TimestampOf(task), DefaultMaxAge, task.clock)
    ELSE IF verify_signature(task.secret, TimestampOf(task), task.body,
                             task.sig) # Ok
    THEN verify_signature(task.secret, TimestampOf(task), task.body, task.sig)
    ELSE DecodePayload(task.model, task.body).result

\* C4: the checks run in the order headers, timestamp, signature, decoding;
\* a request that ends before dispatch ends with the error of the first check
\* it fails; with a header missing nothing but the header check has run, and
\* with a bad timestamp the signature check has not run.
C4_CheckOrder ==
    \A t \in Tasks :
        LET task == tasks[t]
        IN  task.kind = "webhook" =>
              /\ IsPrefix(task.checks, CheckOrder)
              /\ (task.pc = "done" /\ ~Entered(task)) =>
                    /\ task.result = FirstFailure(task)
                    /\ task.result # Ok
              /\ (task.pc = "done" /\ ~HeadersPresent(task)) =>
                    /\ task.result = HTTPException(400, "Missing required headers")
                    /\ task.checks = <<"headers">>
              /\ (task.pc = "done" /\ HeadersPresent(task)
                    /\ verify_timestamp(TimestampOf(task), DefaultMaxAge,
                                        task.clock) # Ok) =>
                    /\ task.result.detail \in {"Invalid timestamp", "Stale timestamp"}
                    /\ task.checks = <<"headers", "timestamp">>

\* A request with a stale timestamp and a signature of another secret has
\* been rejected for its timestamp.
C4_Witness ==
    \E t \in Tasks :
        /\ tasks[t].pc = "done"
        /\ tasks[t].result = HTTPException(400, "Stale timestamp")
        /\ verify_signature(tasks[t].secret, TimestampOf(tasks[t]), tasks[t].body,
                            tasks[t].sig) = HTTPException(400, "Invalid signature")

-----------------------------------------------------------------------------
\* C5: within one dispatch a handler is called only at the start or after
\* the previous handler returned, and what follows a call is the return (or
\* the failure) of that same handler; a task waits in a handler exactly when
\* its last step was to call it.
C5_NoOverlap ==
    \A t \in Tasks :
        LET task == tasks[t]
            log == task.log
        IN  /\ \A i \in 1..Len(log) :
                  log[i].op = "call" =>
                    /\ i = 1 \/ log[i - 1].op = "return"
                    /\ i < Len(log) =>
                          /\ log[i + 1].op \in {"return", "raise"}
                          /\ log[i + 1].handler = log[i].handler
            /\ task.pc = "await" <=>
                  (log # <<>> /\ log[Len(log)].op = "call"
                     /\ task.current = log[Len(log)].handler)

\* Two dispatches are suspended in handlers at once, one of them in its
\* third handler.
C5_Witness ==
    \E t, u \in Tasks :
        /\ t # u
        /\ tasks[t].pc = "await" /\ tasks[u].pc = "await"
        /\ Len(Calls(tasks[t])) = 3

-----------------------------------------------------------------------------
\* The handlers a plugin module declares.
Declared(mod) == {mod.regs[i].func : i \in 1..Len(mod.regs)}

\* The handlers in the registration table.
InTable(h) == UNION {Range(h[name]) : name \in DOMAIN h}

\* C6: once load_plugins has run, no handler declared by a module whose
\* PLUGIN_ACTIVE is False is in the registration table, and none is invoked.
C6_InactiveNotRegistered ==
    loadPc = "done" =>
        \A i \in 1..Len(package.modules) :
            package.modules[i].active = "False" =>
              /\ Declared(package.modules[i]) \cap InTable(handlers) = {}
              /\ \A t \in Tasks :
                    Range(HandlersOf(Calls(tasks[t])))
                        \cap Declared(package.modules[i]) = {}

-----------------------------------------------------------------------------
\* How often f occurs in a sequence.
Count(f, seq) == Cardinality({i \in 1..Len(seq) : seq[i] = f})

\* C7 as stated, for the dispatch of a named event: no handler is invoked
\* twice in one dispatch.
C7_NoHandlerTwice ==
    \A t \in Tasks :
        tasks[t].event_name # Wildcard =>
            \A i, j \in 1..Len(Calls(tasks[t])) :
                i # j => Calls(tasks[t])[i].handler # Calls(tasks[t])[j].handler

\* C7, amended: in one dispatch a handler is invoked at most once for each
\* of its registrations under the dispatched name and under "*", and exactly
\* that often when the dispatch returns; so a handler registered under both
\* is invoked twice.
C7_OncePerRegistration ==
    \A t \in Tasks :
        LET task == tasks[t]
            invoked == HandlersOf(Calls(task))
            exact == Registered(handlers, task.event_name)
            wild == Registered(handlers, Wildcard)
        IN  Entered(task) =>
              \A f \in InTable(handlers) \cup Range(invoked) :
                  /\ Count(f, invoked) <= Count(f, exact) + Count(f, wild)
                  /\ Completed(task) =>
                        Count(f, invoked) = Count(f, exact) + Count(f, wild)

\* A dispatch of order.created has returned after invoking audit_order,
\* registered under "order.created" and under "*", twice.
C7_Witness ==
    \E t \in Tasks :
        /\ Completed(tasks[t])
        /\ tasks[t].event_name = "order.created"
        /\ Count("audit_order", Registered(handlers, "order.created")) = 1
        /\ Count("audit_order", Registered(handlers, Wildcard)) = 1
        /\ Count("audit_order", HandlersOf(Calls(tasks[t]))) = 2

-----------------------------------------------------------------------------
\* The timestamp num / 10^scale lies more than max_age seconds before or
\* after the clock.
OutsideWindow(ts, max_age, clock) ==
    \/ ts.num > (clock + max_age) * Pow10(ts.scale)
    \/ ts.num < (clock - max_age) * Pow10(ts.scale)

Stale == HTTPException(400, "Stale timestamp")

\* C8: a request whose numeric timestamp has been checked is rejected as
\* stale exactly when the timestamp is more than 300 seconds from the clock,
\* whatever its signature: 700 and 1300 pass at time 1000, while 699, 1300.5
\* and 1301 do not.
C8_StaleExactly ==
    \A t \in Tasks :
        LET task == tasks[t]
            ts == ParseFloat(TimestampOf(task).lit)
        IN  (task.kind = "webhook" /\ Len(task.checks) >= 2 /\ ts.ok) =>
              /\ task.result = Stale <=> OutsideWindow(ts, 300, task.clock)
              /\ (task.clock = 1000 /\ TimestampOf(task).lit \in {T700, T1300})
                    => task.result # Stale
              /\ (task.clock = 1000
                    /\ TimestampOf(task).lit \in {T699, T1300h, T1301})
                    => task.result = Stale

\* A request whose signature is the right one has been rejected as stale.
C8_Witness ==
    \E t \in Tasks :
        /\ tasks[t].pc = "done"
        /\ tasks[t].result = Stale
        /\ verify_signature(tasks[t].secret, TimestampOf(tasks[t]), tasks[t].body,
                            tasks[t].sig) = Ok

-----------------------------------------------------------------------------
\* What verify_signature did for the request of a task whose signature
\* check has run: the error it raised, or Ok.
SignatureOutcome(task) ==
    IF Len(task.checks) = 3 /\ task.pc = "done" THEN task.result ELSE Ok

InvalidSignature == HTTPException(400, "Invalid signature")

\* The sender signed with the secret, the timestamp and the body that
\* verify_signature is given.
SameInputs(task) ==
    /\ task.signer.secret = task.secret
    /\ task.signer.timestamp = TimestampOf(task).lit
    /\ task.signer.body = task.body

RECURSIVE StripNul(_)
StripNul(key) ==
    IF key # <<>> /\ key[Len(key)] = "NUL"
    THEN StripNul(SubSeq(key, 1, Len(key) - 1))
    ELSE key

SameKey(task) == StripNul(task.signer.secret) = StripNul(task.secret)

\* The sender signed the same text timestamp "." body.
SameContent(task) ==
    task.signer.timestamp \o <<".">> \o task.signer.body
        = TimestampOf(task).lit \o <<".">> \o task.body

-----------------------------------------------------------------------------
\* The signature header is not the signature of the request.
SignatureMismatch(task) ==
    task.sig # Sign(task.secret, TimestampOf(task).lit, task.body)

\* C10: a finished request has the documented status: 400 when a header is
\* missing, the timestamp is not a number or is stale, or the signature does
\* not match; 422 when all of these pass and the body fails the schema; 200,
\* with the event name in the message, only when every check passed and every
\* invoked handler returned.
C10_StatusMapping ==
    \A t \in Tasks :
        LET task == tasks[t]
            timestamp == TimestampOf(task)
        IN  (task.kind = "webhook" /\ task.pc = "done") =>
              /\ ~HeadersPresent(task) => task.result.status = 400
              /\ (HeadersPresent(task)
                    /\ verify_timestamp(timestamp, DefaultMaxAge, task.clock) # Ok)
                    => task.result.status = 400
              /\ (HeadersPresent(task)
                    /\ verify_timestamp(timestamp, DefaultMaxAge, task.clock) = Ok
                    /\ SignatureMismatch(task))
                    => task.result.status = 400
              /\ (HeadersPresent(task)
                    /\ verify_timestamp(timestamp, DefaultMaxAge, task.clock) = Ok
                    /\ ~SignatureMismatch(task)
                    /\ task.model /\ ~parse_raw(task.body).ok)
                    => task.result.status = 422
              /\ task.result.status = 200 =>
                    /\ Verified(task)
                    /\ Completed(task)
                    /\ \A i \in 1..Len(task.log) : task.log[i].op # "raise"
                    /\ task.result.detail = task.event_name

-----------------------------------------------------------------------------
\* The metadata dispatch builds for a task: the caller's, with the event set.
Stamped(task) == StampMeta(task.callerMeta, task.event_name)

\* C11: every handler a dispatch invokes receives metadata whose event
\* field is the dispatched event name, whatever event (or none) the caller's
\* meta had; and while the dispatch runs the caller's meta stays as it was.
C11_StampedEvent ==
    /\ [](\A t \in Tasks :
            \A i \in 1..Len(tasks[t].log) :
                IsCall(tasks[t].log[i]) =>
                    /\ "event" \in DOMAIN tasks[t].log[i].meta
                    /\ tasks[t].log[i].meta.event = tasks[t].event_name)
    /\ [][\A t \in Tasks :
            tasks[t].pc \in {"dispatch", "await"} =>
                tasks'[t].callerMeta = tasks[t].callerMeta]_vars

-----------------------------------------------------------------------------
\* C12: metadata is passed by value: whatever earlier handlers of the
\* dispatch did to the metadata they received, each handler receives the
\* metadata as dispatch built it.
C12_MetaByValue ==
    \A t \in Tasks :
        \A i \in 1..Len(tasks[t].log) :
            IsCall(tasks[t].log[i]) => tasks[t].log[i].meta = Stamped(tasks[t])

-----------------------------------------------------------------------------
\* The body is the UTF-8 text of a JSON value.
WellFormedJson(body) == Utf8Valid(body) /\ JsonLoads(Utf8Decode(body)).ok

\* C13: a body that is not well-formed JSON is never dispatched, with a
\* schema or without one: when the decoding of such a body has run, the
\* request has ended with a decode error and no handler was invoked; and a
\* request without a schema is dispatched with the decoded JSON value (not
\* the text) as its payload.
C13_MalformedNeverDispatched ==
    \A t \in Tasks :
        LET task == tasks[t]
        IN  task.kind = "webhook" =>
              /\ (Entered(task) \/ task.log # <<>>) => WellFormedJson(task.body)
              /\ (Len(task.checks) = 4 /\ ~WellFormedJson(task.body)) =>
                    /\ task.pc = "done"
                    /\ task.result.status \in {400, 422}
                    /\ task.log = <<>>
              /\ (Entered(task) /\ ~task.model) => task.payload.kind = "json"

-----------------------------------------------------------------------------
\* The handlers a dispatch of the task has to invoke, in order: those under
\* its event name, then those under "*".
InvocationOrder(task, h) ==
    Registered(h, task.event_name) \o Registered(h, Wildcard)

\* C14: with several dispatches in flight, every step in which a dispatch
\* invokes a handler invokes the next handler of that dispatch's own order
\* (exact-name registrations, then wildcard ones), in the loop it belongs to,
\* and leaves every other task as it was; a dispatch that has returned has
\* invoked each of its registrations once, in order.
C14_InterleavedDispatches ==
    [][\A t \in Tasks :
         LET before == HandlersOf(Calls(tasks[t]))
             after == Calls(tasks'[t])
             order == InvocationOrder(tasks'[t], handlers')
         IN  /\ Len(after) > Len(before) =>
                  /\ Len(before) < Len(order)
                  /\ HandlersOf(after) = Append(before, order[Len(before) + 1])
                  /\ after[Len(after)].phase =
                        (IF Len(after) <= Len(Registered(handlers',
                                                         tasks'[t].event_name))
                         THEN "exact" ELSE "wild")
                  /\ \A u \in Tasks \ {t} : tasks'[u] = tasks[u]
             /\ Completed(tasks'[t]) => HandlersOf(after) = order]_vars

\* Two dispatches of different events are suspended in handlers at once,
\* each at its second handler or later.
C14_Witness ==
    \E t, u \in Tasks :
        /\ tasks[t].event_name # tasks[u].event_name
        /\ tasks[t].pc = "await" /\ tasks[u].pc = "await"
        /\ Len(Calls(tasks[t])) >= 2 /\ Len(Calls(tasks[u])) >= 2

-----------------------------------------------------------------------------
\* The request of the task has just arrived and passes every check, at
\* whatever time from now on its timestamp is checked.
Acceptable(task) ==
    /\ task.kind = "webhook"
    /\ task.pc = "extract"
    /\ HeadersPresent(task)
    /\ \A clock \in now..(StartTime + MaxTicks) :
          verify_timestamp(TimestampOf(task), DefaultMaxAge, clock) = Ok
    /\ verify_signature(task.secret, TimestampOf(task), task.body, task.sig) = Ok
    /\ DecodePayload(task.model, task.body).result = Ok

Acknowledged(task) == task.pc = "done" /\ task.result.status = 200

HandlerFailed(task) == \E i \in 1..Len(task.log) : IsRaise(task.log[i])

-----------------------------------------------------------------------------
\* C16: once load_plugins has run, no step of request processing (the
\* header, timestamp and signature checks, the decoding, dispatch and what it
\* awaits) changes the registration table, and the table never holds an empty
\* list: looking up a name without handlers stores nothing.
C16_TableReadOnly ==
    /\ [](\A name \in DOMAIN handlers : handlers[name] # <<>>)
    /\ [][loadPc = "done" => handlers' = handlers]_vars

\* A dispatch of payment.failed has returned with handlers registered, none
\* of them under payment.failed or under "*", and the table has neither name.
C16_Witness ==
    \E t \in Tasks :
        /\ Completed(tasks[t])
        /\ tasks[t].event_name = "payment.failed"
        /\ tasks[t].log = <<>>
        /\ DOMAIN handlers = {"order.created"}

-----------------------------------------------------------------------------
\* The handlers that a module's registrations put under a name, in order.
RegisteredBy(regs, name) ==
    LET UnderName(r) == r.event_name = name
        sel == SelectSeq(regs, UnderName)
    IN  [i \in 1..Len(sel) |-> sel[i].func]

\* C17: the registration table is append-only.  In every step each list
\* is kept as a prefix of what it becomes (nothing removed or reordered); the
\* import of a plugin module adds its registrations at the end of the lists
\* of their names, in the order of the module; and a single events.on after
\* start-up adds one handler at the end of one list and leaves the lists of
\* all other names as they were.
C17_AppendOnly ==
    [][/\ \A name \in DOMAIN handlers :
            /\ name \in DOMAIN handlers'
            /\ IsPrefix(handlers[name], handlers'[name])
       /\ (loadPc = "iter" /\ loadIdx' = loadIdx + 1) =>
            \A name \in DOMAIN handlers' :
                handlers'[name] =
                    Registered(handlers, name)
                    \o RegisteredBy(package.modules[loadIdx].regs, name)
       /\ (loadPc = "done" /\ handlers' # handlers) =>
            \E name \in DOMAIN handlers' :
                /\ Len(handlers'[name]) = Len(Registered(handlers, name)) + 1
                /\ handlers'[name][Len(handlers'[name])] = "late_handler"
                /\ \A other \in DOMAIN handlers' \ {name} :
                      /\ other \in DOMAIN handlers
                      /\ handlers'[other] = handlers[other]]_vars

\* A handler subscribed after start-up stands behind the two that the
\* notify plugin registered under order.created, and a second one under "*"
\* behind the wildcard registration of the audit plugin.
C17_Witness ==
    /\ loadPc = "done"
    /\ Registered(handlers, "order.created")
          = <<"audit_order", "notify_order", "notify_stock", "late_handler">>
    /\ Registered(handlers, Wildcard) = <<"audit_order", "late_handler">>

-----------------------------------------------------------------------------
\* C18: the handlers a dispatch invokes, and their order, are those of the
\* registration table as it was when the dispatch was entered: a handler
\* subscribed while the dispatch is suspended in a handler is not invoked
\* by it.
C18_FixedAtStart ==
    \A t \in Tasks :
        LET task == tasks[t]
            invoked == HandlersOf(Calls(task))
        IN  Entered(task) =>
              /\ IsPrefix(invoked, InvocationOrder(task, task.entry))
              /\ Completed(task) => invoked = InvocationOrder(task, task.entry)

-----------------------------------------------------------------------------
\* The endpoint a request came in by, known by its secret.
EndpointOf(task) ==
    CHOOSE ep \in {order_created, order_updated} : ep.secret = task.secret

\* C19: for a request to an endpoint, the name under which handlers are
\* selected, the event in the metadata every handler receives and the event
\* named in the acknowledgment are the endpoint's own event name, whatever
\* the event field of the body says.
C19_EndpointEventName ==
    \A t \in Tasks :
        LET task == tasks[t]
            name == EndpointOf(task).event_name
        IN  (task.kind = "webhook" /\ task.secret # <<>>) =>
              /\ \A i \in 1..Len(task.log) :
                    IsCall(task.log[i]) =>
                      /\ task.log[i].handler \in
                            Range(Registered(handlers,
                                             IF task.log[i].phase = "exact"
                                             THEN name ELSE Wildcard))
                      /\ task.log[i].meta.event = name
              /\ task.result.status = 200 => task.result.detail = name

=============================================================================
